---- MODULE Spec2Model ----
(***************************************************************************)
(* Request orchestration of the MatTailor AI backend (src/backend/main.py):*)
(* the slowapi rate limiter in front of every route, the /recommend        *)
(* pipeline (NLP enhancement, recommendation, per-material simulation),    *)
(* the /tradeoff and /simulate pass-throughs, the /plan_rl background       *)
(* dispatch and the /materials/{material_id} lookup; and the CORS origins   *)
(* of Settings (src/backend/config/settings.py).                           *)
(*                                                                         *)
(* The services behind the routes (NLPProcessor, MaterialRecommender,      *)
(* PropertySimulator, RLPlanner) are called through `await`; each call is  *)
(* one step whose outcome (a returned value or a raised exception) is      *)
(* chosen nondeterministically.                                            *)
(***************************************************************************)
EXTENDS Integers, Sequences, FiniteSets, TLC

\* ------------------------------------------------------------------ bounds
\* Longest material list the recommender returns / the caller submits.
MaxCands == 2
MaxIds == 2
\* The route limits of main.py (30, 20 and 10 per minute), scaled down so that
\* a counter can be driven past its limit; the order of the limits is kept.
RecommendLimit == 3
TradeoffLimit == 2
PlanLimit == 1
\* Length of the limiter's window ("minute"), in clock ticks.
Window == 2
\* Steps a planning job may take before it ends.
MaxJobSteps == 2
\* The limits of /simulate (20 per minute) and /materials/{material_id} (100
\* per minute), on the same scale.
SimulateLimit == 2
MaterialLimit == 10
\* Requests that arrive within one window, where the clock is not run.
MaxRequests == 3
\* Most components of a composition submitted to /simulate.
MaxComponents == 1
\* Most origins listed in one CORS_ORIGINS value.
MaxOrigins == 2
\* Most calls of get_settings that run Settings().
MaxAttempts == 2

\* Most chunks a streamed completion delivers.
MaxChunks == 3

\* ------------------------------------------------------------------ data
Slots == {1, 2}
Callers == {"10.0.0.1", "10.0.0.2"}
Routes == {"recommend", "tradeoff", "plan_rl", "simulate", "materials"}
Materials == {"A", "B", "C"}
Requirements == {"none", "r1", "r2"}

\* MaterialQuery: the natural-language text ("" when absent) and the structured
\* requirements ("none" when the caller gave no structured field).
MaterialQuery == [natural_language_query : {"", "text"}, requirements : Requirements]
NoQuery == [natural_language_query |-> "", requirements |-> "none"]

Min(a, b) == IF a < b THEN a ELSE b

Range(q) == {q[n] : n \in DOMAIN q}

\* Sequences over S without repetition, of length at most n.
RECURSIVE DistinctSeqs(_, _)
DistinctSeqs(S, n) ==
    IF n = 0 THEN {<<>>}
    ELSE LET shorter == DistinctSeqs(S, n - 1)
         IN  shorter \cup UNION {{Append(q, x) : x \in S \ Range(q)} :
                                 q \in {p \in shorter : Len(p) = n - 1}}

\* What recommender.recommend can return: a ranked list of materials.
RankedLists == DistinctSeqs(Materials, MaxCands)

\* The material_ids a caller can submit to /tradeoff: 0 .. MaxIds ids.
CatalogOrder == <<"A", "B", "C">>
IdLists == {SubSeq(CatalogOrder, 1, n) : n \in 0 .. Min(MaxIds, Len(CatalogOrder))}

\* The compositions a caller can submit to /simulate: the names of 0 ..
\* MaxComponents components (the fractions play no part in the handler).
Components == <<"Fe", "C", "Ni">>
Compositions ==
    {SubSeq(Components, 1, n) : n \in 0 .. Min(MaxComponents, Len(Components))}

\* The ids a caller can ask /materials/{material_id} for.
LookupIds == {"A", "Z"}

\* str(e) of the exceptions a service call can raise.
Messages == {"connection refused", "password=hunter2"}

\* chunk["choices"][0]["delta"] of the chunks of a streamed completion: the
\* role, a piece of the text, or nothing.
Deltas == {[role |-> "assistant"], [content |-> "Ti"], [content |-> "-6Al"],
           [finish |-> "stop"]}

\* response["choices"][0]["message"]["content"] of a completion.
Completions == {"Ti-6Al-4V", "", "Error: none"}

\* ------------------------------------------------------------------ state
VARIABLES
    limiter,          \* slowapi's in-memory storage: per key, the hits of the
                      \* current window and the ticks left until it expires
    pc,               \* per request task: where its handler stands
    request,          \* per request task: caller, route and the submitted body
    query,            \* recommend_materials' local variable `query`
    recommendations,  \* recommend_materials' local `recommendations.materials`
    response,         \* the response the handler (or the limiter) produced
    calls,            \* the collaborator calls the request has made, in order
    raised,           \* the call of this request that raised ("" while none has)
    cursor,           \* materials the loop `for material in ...` has passed
    returned,         \* what recommender.recommend returned to this request
    background_tasks, \* the request's BackgroundTasks
    progress,         \* steps the request's planning job has run
    sent,             \* whether the response has gone out to the caller
    backlog,          \* planning jobs handed to add_task so far, less the
                      \* "initiated" responses sent so far
    environ,          \* os.environ: the CORS_ORIGINS variable
    settings,         \* the outcome of the latest Settings()
    cache,            \* what lru_cache holds for get_settings
    attempts,         \* the calls of get_settings that ran Settings() so far
    first_call,       \* the outcome of the first call of get_settings
    latest_call,      \* the outcome of the latest call of get_settings
    again,            \* whether get_settings has been called more than once
    llm_pc,           \* where the call of SparkClient.llm stands
    stream,           \* llm's argument `stream`
    chunks,           \* what OpenAI has delivered to this call: the deltas of
                      \* the stream, or the one message of the completion
    joined,           \* the text "".join has put together so far
    llm_error,        \* the exception the OpenAI call has raised in this call
    llm_result        \* how the call of llm ended: the value it returned or
                      \* the exception that left it

\* The cache of get_settings and the outcomes of its calls.
memo == <<cache, attempts, first_call, latest_call, again>>

\* The call of SparkClient.llm.
spark == <<llm_pc, stream, chunks, joined, llm_error, llm_result>>

\* The process environment and the settings built from it, and the LLM client.
config == <<environ, settings, memo, spark>>

vars == <<limiter, pc, request, query, recommendations, cursor, response, calls,
          raised, returned, background_tasks, progress, sent, backlog, config>>

\* ------------------------------------------------------------------ limiter
\* @limiter.limit("<n>/minute") of each route.
RouteLimit(route) ==
    CASE route = "recommend" -> RecommendLimit
      [] route = "tradeoff" -> TradeoffLimit
      [] route = "plan_rl" -> PlanLimit
      [] route = "simulate" -> SimulateLimit
      [] route = "materials" -> MaterialLimit

\* Limiter(key_func=get_remote_address): one counter per caller address and
\* decorated endpoint.
Keys == Callers \X Routes

\* Variant: one counter per caller address, shared by the routes.
LimiterKeyPerCaller(caller, route) == <<caller, "tradeoff">>

LimiterKey(caller, route) == <<caller, route>>

NoWindow == [count |-> 0, ttl |-> 0]

\* The hits stored under a key; an expired key reads as absent.
Stored(lim, key) == IF lim[key].ttl = 0 THEN 0 ELSE lim[key].count

\* Variant: the limit is hit one request early.
TestHitStrict(lim, key, limit) == Stored(lim, key) + 1 < limit

\* The fixed-window test of one hit: the counter is incremented first and the
\* request passes when the incremented counter does not exceed the limit.
TestHit(lim, key, limit) == Stored(lim, key) + 1 <= limit

\* The storage after one hit. The first hit of a window sets its expiry. A
\* rejected hit is counted too; the stored count saturates at limit + 1, which
\* no test can tell from a larger one.
Hit(lim, key, limit) ==
    [lim EXCEPT ![key] =
        [count |-> Min(Stored(lim, key) + 1, limit + 1),
         ttl |-> IF Stored(lim, key) = 0 THEN Window ELSE lim[key].ttl]]

\* One tick of the clock: every live window is one tick nearer its expiry, and
\* an expired key is dropped from the storage.
Expire(lim) ==
    [k \in Keys |->
        IF lim[k].ttl <= 1 THEN NoWindow
        ELSE [count |-> lim[k].count, ttl |-> lim[k].ttl - 1]]

\* ------------------------------------------------------------------ values
NoResponse == [status |-> 0, detail |-> "", materials |-> <<>>, analysis |-> <<>>]

\* _rate_limit_exceeded_handler: 429 with the limit's description.
RateLimited == [status |-> 429, detail |-> "Rate limit exceeded",
                materials |-> <<>>, analysis |-> <<>>]

\* raise HTTPException(status_code=500, detail=...)
HTTPException(detail) == [status |-> 500, detail |-> detail,
                          materials |-> <<>>, analysis |-> <<>>]

Ok(materials, analysis) == [status |-> 200, detail |-> "",
                            materials |-> materials, analysis |-> analysis]

Initiated == [status |-> 200, detail |-> "initiated",
              materials |-> <<>>, analysis |-> <<>>]

RecommendUnavailable == HTTPException("Recommendation service temporarily unavailable")
TradeoffUnavailable == HTTPException("Trade-off analysis service temporarily unavailable")
PlanningUnavailable == HTTPException("RL planning service temporarily unavailable")
SimulationUnavailable == HTTPException("Simulation service temporarily unavailable")
RetrievalUnavailable ==
    HTTPException("Material retrieval service temporarily unavailable")

\* The failures of the routes outside the pipeline: /health's 503 and the 404
\* of /materials/{material_id}.
HealthUnavailable == [status |-> 503, detail |-> "Service temporarily unavailable",
                      materials |-> <<>>, analysis |-> <<>>]
MaterialNotFound == [status |-> 404, detail |-> "Material not found",
                     materials |-> <<>>, analysis |-> <<>>]

\* A Material as the recommender returns it, and the value simulate_properties
\* computes for a material under a requirement set.
Unsimulated == [of |-> "", under |-> ""]
Material(id) == [id |-> id, simulated_properties |-> Unsimulated]
SimulatedProperties(id, requirements) == [of |-> id, under |-> requirements]

\* One entry of `calls`: the service called, its arguments and what came back
\* (for process_query the requirements of the returned query, "raised" for an
\* exception).
Call(service, text, requirements, material, result) ==
    [service |-> service, text |-> text, requirements |-> requirements,
     material |-> material, result |-> result]

NoRequest == [caller |-> "", route |-> "", query |-> NoQuery, material_ids |-> <<>>,
              composition |-> <<>>, material_id |-> ""]

Ids(materials) == [n \in DOMAIN materials |-> materials[n].id]

\* ------------------------------------------------------------------ settings
\* CORS_ORIGINS absent from os.environ. A value of the variable is its text, a
\* sequence of characters; `format` and `items` record how the text was made.
Unset == [set |-> FALSE, text |-> <<>>, format |-> "unset", items |-> <<>>]

\* Before the first Settings().
NotConstructed == [state |-> "none", cors_origins |-> <<>>, env |-> Unset]

\* The origins a deployment lists, and each as it can be typed into a list:
\* bare or with blanks around it.
Origins == {<<"a">>, <<"b">>}
PaddedOrigins == Origins \cup {<<" ">> \o o \o <<" ">> : o \in Origins}

\* The non-empty lists over S of at most n items.
Lists(S, n) == UNION {[1 .. k -> S] : k \in 1 .. n}

RECURSIVE Join(_, _)
Join(items, separator) ==
    IF Len(items) = 0 THEN <<>>
    ELSE IF Len(items) = 1 THEN items[1]
    ELSE items[1] \o separator \o Join(Tail(items), separator)

\* A list of origins written as a JSON array and as comma-separated values.
JsonText(items) ==
    <<"[">> \o Join([n \in DOMAIN items |-> <<"\"">> \o items[n] \o <<"\"">>],
                    <<",", " ">>) \o <<"]">>
CsvText(items) == Join(items, <<",">>)

\* The values CORS_ORIGINS takes: unset, a JSON array of 0 .. MaxOrigins
\* origins, or 1 .. MaxOrigins comma-separated origins.
EnvValues ==
    {Unset}
    \cup {[set |-> TRUE, text |-> JsonText(l), format |-> "json", items |-> l] :
             l \in Lists(PaddedOrigins, MaxOrigins) \cup {<<>>}}
    \cup {[set |-> TRUE, text |-> CsvText(l), format |-> "csv", items |-> l] :
             l \in Lists(PaddedOrigins, MaxOrigins)}

\* The first position from i on that holds no blank.
RECURSIVE SkipBlanks(_, _)
SkipBlanks(text, i) ==
    IF i <= Len(text) /\ text[i] = " " THEN SkipBlanks(text, i + 1) ELSE i

\* The position of the next double quote from i on, 0 when there is none.
RECURSIVE ClosingQuote(_, _)
ClosingQuote(text, i) ==
    IF i > Len(text) THEN 0
    ELSE IF text[i] = "\"" THEN i
    ELSE ClosingQuote(text, i + 1)

JSONDecodeError == [ok |-> FALSE, value |-> <<>>]

\* The elements of a JSON array from position i on, where a string is due.
RECURSIVE Elements(_, _, _)
Elements(text, i, parsed) ==
    LET open == SkipBlanks(text, i)
    IN  IF open > Len(text) \/ text[open] # "\"" THEN JSONDecodeError
        ELSE LET close == ClosingQuote(text, open + 1)
                 after == SkipBlanks(text, close + 1)
                 item == SubSeq(text, open + 1, close - 1)
             IN  IF close = 0 \/ after > Len(text) THEN JSONDecodeError
                 ELSE IF text[after] = ","
                      THEN Elements(text, after + 1, Append(parsed, item))
                 ELSE IF text[after] = "]" /\ SkipBlanks(text, after + 1) > Len(text)
                      THEN [ok |-> TRUE, value |-> Append(parsed, item)]
                 ELSE JSONDecodeError

\* json.loads on the texts of EnvValues: an array of strings parses to the
\* list of its strings, a text that is no JSON document raises.
loads(text) ==
    LET start == SkipBlanks(text, 1)
    IN  IF start > Len(text) \/ text[start] # "[" THEN JSONDecodeError
        ELSE LET first == SkipBlanks(text, start + 1)
             IN  IF first <= Len(text) /\ text[first] = "]"
                 THEN IF SkipBlanks(text, first + 1) > Len(text)
                      THEN [ok |-> TRUE, value |-> <<>>]
                      ELSE JSONDecodeError
                 ELSE Elements(text, start + 1, <<>>)

\* str.split(",")
RECURSIVE split(_)
split(text) ==
    LET commas == {i \in DOMAIN text : text[i] = ","}
    IN  IF commas = {} THEN <<text>>
        ELSE LET c == CHOOSE i \in commas : \A j \in commas : i <= j
             IN  <<SubSeq(text, 1, c - 1)>> \o split(SubSeq(text, c + 1, Len(text)))

\* str.strip()
RECURSIVE strip(_)
strip(text) ==
    IF text # <<>> /\ text[1] = " " THEN strip(Tail(text))
    ELSE IF text # <<>> /\ text[Len(text)] = " "
         THEN strip(SubSeq(text, 1, Len(text) - 1))
    ELSE text

\* The default origins of Settings.__init__, each taken as one symbol.
DefaultOrigins ==
    <<<<"http://localhost:3000">>, <<"http://localhost:5173">>,
      <<"https://mattailor-ai.netlify.app">>, <<"https://mattailor-ai.vercel.app">>>>

\* super().__init__(**data): BaseSettings fills every field from the
\* environment (case_sensitive = False, so CORS_ORIGINS is the variable of
\* cors_origins). A List field is complex: the value of its variable is decoded
\* as JSON, and a value that does not decode raises SettingsError.
EnvSource(env) == IF env.set THEN loads(env.text) ELSE [ok |-> TRUE, value |-> <<>>]

\* The body of Settings.__init__ after super().__init__: cors_origins from
\* os.getenv("CORS_ORIGINS"), or the defaults when it is unset or empty.
cors_origins(env) ==
    IF env.set /\ env.text # <<>>
    THEN IF loads(env.text).ok
         THEN loads(env.text).value
         ELSE [n \in DOMAIN split(env.text) |-> strip(split(env.text)[n])]
    ELSE DefaultOrigins

\* Settings() under the environment env: the instance, or the exception that
\* left __init__.
Settings(env) ==
    IF ~EnvSource(env).ok
    THEN [state |-> "SettingsError", cors_origins |-> <<>>, env |-> env]
    ELSE [state |-> "constructed", cors_origins |-> cors_origins(env), env |-> env]

\* ------------------------------------------------------------------ Init
InitService ==
    /\ limiter = [k \in Keys |-> NoWindow]
    /\ pc = [s \in Slots |-> "idle"]
    /\ request = [s \in Slots |-> NoRequest]
    /\ query = [s \in Slots |-> NoQuery]
    /\ recommendations = [s \in Slots |-> <<>>]
    /\ cursor = [s \in Slots |-> 0]
    /\ response = [s \in Slots |-> NoResponse]
    /\ calls = [s \in Slots |-> <<>>]
    /\ raised = [s \in Slots |-> ""]
    /\ returned = [s \in Slots |-> <<>>]
    /\ background_tasks = [s \in Slots |-> <<>>]
    /\ progress = [s \in Slots |-> 0]
    /\ sent = [s \in Slots |-> FALSE]
    /\ backlog = 0

\* An outcome of get_settings: the Settings instance it returned, numbered by
\* the Settings() call that built it, or the exception that left it. None
\* before the first call.
NoInstance == [instance |-> 0, value |-> NotConstructed]

InitCache ==
    /\ cache = NoInstance
    /\ attempts = 0
    /\ first_call = NoInstance
    /\ latest_call = NoInstance
    /\ again = FALSE

\* No exception, and no result yet.
NoError == [raised |-> FALSE, message |-> ""]
Pending == [kind |-> "pending", value |-> ""]

InitSpark ==
    /\ llm_pc = "idle"
    /\ stream = FALSE
    /\ chunks = <<>>
    /\ joined = ""
    /\ llm_error = NoError
    /\ llm_result = Pending

Init ==
    /\ InitService
    /\ InitCache
    /\ InitSpark
    /\ environ = Unset
    /\ settings = NotConstructed

\* ------------------------------------------------------------------ admission
\* Variant: every /recommend query is enhanced, with or without text.
EntryPointEnhancesAll(route, q) ==
    CASE route = "recommend" -> "enhance"
      [] route = "tradeoff" -> "tradeoff"
      [] route = "plan_rl" -> "plan"
      [] route = "simulate" -> "simulate_custom"
      [] route = "materials" -> "lookup"

\* Where the handler of a route stands once the limiter has let the request in.
\* recommend_materials tests `if query.natural_language_query` before its
\* first await.
EntryPoint(route, q) ==
    CASE route = "recommend" ->
            IF q.natural_language_query # "" THEN "enhance" ELSE "recommend"
      [] route = "tradeoff" -> "tradeoff"
      [] route = "plan_rl" -> "plan"
      [] route = "simulate" -> "simulate_custom"
      [] route = "materials" -> "lookup"

\* Variant: the limit is only reported; the endpoint function runs all the same.
WrapperCallsThrough(allowed, route, q) == EntryPoint(route, q)

\* The limiter's wrapper around an endpoint: over the limit it raises
\* RateLimitExceeded, which the registered handler answers, and the endpoint
\* function is not called.
Wrapper(allowed, route, q) == IF allowed THEN EntryPoint(route, q) ELSE "respond"

\* A request arrives on a free task and the limiter counts the hit. `body` is
\* what the caller submitted: query, material_ids, composition, material_id.
AdmitBody(s, caller, route, body) ==
    /\ pc[s] = "idle"
    /\ limiter' = Hit(limiter, LimiterKey(caller, route), RouteLimit(route))
    /\ request' = [request EXCEPT ![s] =
                      [caller |-> caller, route |-> route, query |-> body.query,
                       material_ids |-> body.material_ids,
                       composition |-> body.composition,
                       material_id |-> body.material_id]]
    /\ query' = [query EXCEPT ![s] = body.query]
    /\ LET allowed == TestHit(limiter, LimiterKey(caller, route), RouteLimit(route))
       IN  /\ pc' = [pc EXCEPT ![s] = Wrapper(allowed, route, body.query)]
           /\ response' = [response EXCEPT ![s] =
                              IF allowed THEN NoResponse ELSE RateLimited]
    /\ UNCHANGED <<config, recommendations, cursor, calls, raised, returned,
                   background_tasks, progress, sent, backlog>>

Admit(s, caller, route, q, ids) ==
    AdmitBody(s, caller, route,
              [query |-> q, material_ids |-> ids, composition |-> <<>>,
               material_id |-> ""])

ReceiveRecommend(s, caller, q) == Admit(s, caller, "recommend", q, <<>>)

ReceiveTradeoff(s, caller, ids) == Admit(s, caller, "tradeoff", NoQuery, ids)

ReceivePlan(s, caller) == Admit(s, caller, "plan_rl", NoQuery, <<>>)

ReceiveSimulate(s, caller, composition) ==
    AdmitBody(s, caller, "simulate",
              [query |-> NoQuery, material_ids |-> <<>>,
               composition |-> composition, material_id |-> ""])

ReceiveLookup(s, caller, material_id) ==
    AdmitBody(s, caller, "materials",
              [query |-> NoQuery, material_ids |-> <<>>, composition |-> <<>>,
               material_id |-> material_id])

\* Time passes: the limiter's windows run down.
Tick ==
    /\ \E k \in Keys : limiter[k].ttl > 0
    /\ limiter' = Expire(limiter)
    /\ UNCHANGED <<config, pc, request, query, recommendations, cursor, response,
                   calls, raised, returned, background_tasks, progress, sent,
                   backlog>>

\* ------------------------------------------------------------------ failures
\* except Exception as e: logger.error(f"...: {str(e)}");
\* raise HTTPException(status_code=500, detail=<the route's text>). The text of
\* the exception goes to the log; the response carries the route's text.
\* Variant: the response carries the text of the exception (detail=str(e)).
FailureWithCause(failure, message) == [failure EXCEPT !.detail = message]

\* detail=<the route's text>
Failure(failure, message) == failure

\* ------------------------------------------------------------------ /recommend
\* Variant: the exception is logged and swallowed at the call, and the handler
\* goes on from where it was.
RaiseAndGoOn(s, call, failure) ==
    /\ calls' = [calls EXCEPT ![s] = Append(@, call)]
    /\ raised' = [raised EXCEPT ![s] = call.service]
    /\ pc' = pc
    /\ response' = response

\* A call to a service raises an exception with some text: the handler leaves
\* through `except Exception` and answers with its HTTPException.
Raise(s, call, failure) ==
    /\ calls' = [calls EXCEPT ![s] = Append(@, call)]
    /\ raised' = [raised EXCEPT ![s] = call.service]
    /\ pc' = [pc EXCEPT ![s] = "respond"]
    /\ \E message \in Messages :
          response' = [response EXCEPT ![s] = Failure(failure, message)]

Logged(s, call) ==
    /\ calls' = [calls EXCEPT ![s] = Append(@, call)]
    /\ raised' = raised

\* What process_query can return for a query: the query with requirements of
\* the enhancer's choosing.
EnhancedQueries(q) == {[q EXCEPT !.requirements = r] : r \in Requirements}

\* Variant: the caller's explicit requirements are merged over the enhancer's.
EnhancedCallerWins(q, enhanced_query) ==
    IF q.requirements # "none"
    THEN [enhanced_query EXCEPT !.requirements = q.requirements]
    ELSE enhanced_query

\* query = enhanced_query
Enhanced(q, enhanced_query) == enhanced_query

\* enhanced_query = await nlp_processor.process_query(
\*     query.natural_language_query, query) returns.
EnhanceReturns(s, enhanced_query) ==
    /\ pc[s] = "enhance"
    /\ Logged(s, Call("nlp", query[s].natural_language_query,
                      query[s].requirements, "", enhanced_query.requirements))
    /\ query' = [query EXCEPT ![s] = Enhanced(@, enhanced_query)]
    /\ pc' = [pc EXCEPT ![s] = "recommend"]
    /\ UNCHANGED <<config, limiter, request, recommendations, cursor, response, returned,
                   background_tasks, progress, sent, backlog>>

\* Variant: a failed enhancement falls back to the query as submitted.
EnhanceFallsBack(s) ==
    /\ pc[s] = "enhance"
    /\ calls' = [calls EXCEPT ![s] =
                    Append(@, Call("nlp", query[s].natural_language_query,
                                   query[s].requirements, "", "raised"))]
    /\ raised' = [raised EXCEPT ![s] = "nlp"]
    /\ pc' = [pc EXCEPT ![s] = "recommend"]
    /\ UNCHANGED <<config, limiter, request, query, recommendations, cursor, response,
                   returned, background_tasks, progress, sent, backlog>>

\* process_query raises.
EnhanceRaises(s) ==
    /\ pc[s] = "enhance"
    /\ Raise(s, Call("nlp", query[s].natural_language_query,
                     query[s].requirements, "", "raised"),
             RecommendUnavailable)
    /\ UNCHANGED <<config, limiter, request, query, recommendations, cursor, returned,
                   background_tasks, progress, sent, backlog>>

\* recommendations.materials as the recommender hands it over.
AsMaterials(ranked) == [n \in DOMAIN ranked |-> Material(ranked[n])]

\* Variant: an empty recommendation is answered as a failure.
LoopRejectsEmpty(s, materials, n) ==
    /\ cursor' = [cursor EXCEPT ![s] = n]
    /\ IF n >= Len(materials)
       THEN /\ pc' = [pc EXCEPT ![s] = "respond"]
            /\ response' = [response EXCEPT ![s] =
                               IF materials = <<>> THEN MaterialNotFound
                               ELSE Ok(materials, <<>>)]
       ELSE /\ pc' = [pc EXCEPT ![s] = "simulate"]
            /\ response' = response

\* The simulation loop over `materials` with n of them passed: the next
\* iteration, or `return recommendations`.
Loop(s, materials, n) ==
    /\ cursor' = [cursor EXCEPT ![s] = n]
    /\ IF n >= Len(materials)
       THEN /\ pc' = [pc EXCEPT ![s] = "respond"]
            /\ response' = [response EXCEPT ![s] = Ok(materials, <<>>)]
       ELSE /\ pc' = [pc EXCEPT ![s] = "simulate"]
            /\ response' = response

\* Variant: `recommendations` is a module-level name, one for all requests.
ModuleLevel(s) == 1

\* Where `recommendations` of request s lives: it is a local of
\* recommend_materials, in the frame of the request's own call.
Frame(s) == s

\* recommendations = await recommender.recommend(query) returns; the
\* simulation loop starts (or, over an empty list, ends at once).
RecommendReturns(s, ranked) ==
    /\ pc[s] = "recommend"
    /\ Logged(s, Call("recommender", query[s].natural_language_query,
                      query[s].requirements, "", "returned"))
    /\ returned' = [returned EXCEPT ![s] = ranked]
    /\ recommendations' = [recommendations EXCEPT ![Frame(s)] = AsMaterials(ranked)]
    /\ Loop(s, recommendations'[Frame(s)], 0)
    /\ UNCHANGED <<config, limiter, request, query, background_tasks, progress, sent,
                   backlog>>

\* Variant: a failed recommendation is answered as an empty result.
RecommendRaisesEmpty(s) ==
    /\ pc[s] = "recommend"
    /\ calls' = [calls EXCEPT ![s] =
                    Append(@, Call("recommender", query[s].natural_language_query,
                                   query[s].requirements, "", "raised"))]
    /\ raised' = [raised EXCEPT ![s] = "recommender"]
    /\ pc' = [pc EXCEPT ![s] = "respond"]
    /\ response' = [response EXCEPT ![s] = Ok(<<>>, <<>>)]
    /\ UNCHANGED <<config, limiter, request, query, recommendations, cursor,
                   returned, background_tasks, progress, sent, backlog>>

\* recommender.recommend raises.
RecommendRaises(s) ==
    /\ pc[s] = "recommend"
    /\ Raise(s, Call("recommender", query[s].natural_language_query,
                     query[s].requirements, "", "raised"),
             RecommendUnavailable)
    /\ UNCHANGED <<config, limiter, request, query, recommendations, cursor, returned,
                   background_tasks, progress, sent, backlog>>

\* Variant: the annotated materials are collected as their simulations arrive,
\* the latest first.
AnnotateByArrival(materials, n, properties) ==
    <<[materials[n] EXCEPT !.simulated_properties = properties]>>
        \o SubSeq(materials, 1, n - 1) \o SubSeq(materials, n + 1, Len(materials))

\* material.simulated_properties = <the value simulate_properties returned>
Annotate(materials, n, properties) ==
    [materials EXCEPT ![n].simulated_properties = properties]

\* Variant: the loop passes the requirements of the query as submitted.
SubmittedRequirements(s) == request[s].query.requirements

\* `query.requirements` as the loop reads it: of the handler's `query`, which
\* is the enhancer's result once `query = enhanced_query` has run.
LoopRequirements(s) == query[s].requirements

\* material.simulated_properties = await simulator.simulate_properties(
\*     material, query.requirements) returns for the material the loop is at.
SimulateReturns(s) ==
    /\ pc[s] = "simulate"
    /\ LET n == cursor[s] + 1
           material == recommendations[Frame(s)][n]
       IN  /\ Logged(s, Call("simulator", "", LoopRequirements(s), material.id,
                             "returned"))
           /\ recommendations' = [recommendations EXCEPT ![Frame(s)] =
                 Annotate(@, n, SimulatedProperties(material.id,
                                                    LoopRequirements(s)))]
           /\ Loop(s, recommendations'[Frame(s)], n)
    /\ UNCHANGED <<config, limiter, request, query, returned, background_tasks, progress,
                   sent, backlog>>

\* Variant: a failed simulation marks its material as degraded and the loop
\* goes on.
SimulateDegrades(s) ==
    /\ pc[s] = "simulate"
    /\ LET n == cursor[s] + 1
           material == recommendations[s][n]
       IN  /\ calls' = [calls EXCEPT ![s] =
                  Append(@, Call("simulator", "", query[s].requirements,
                                 material.id, "raised"))]
           /\ raised' = [raised EXCEPT ![s] = "simulator"]
           /\ recommendations' = [recommendations EXCEPT ![s] =
                 Annotate(@, n, [of |-> material.id, under |-> "degraded"])]
           /\ Loop(s, recommendations'[s], n)
    /\ UNCHANGED <<config, limiter, request, query, returned, background_tasks, progress,
                   sent, backlog>>

\* simulate_properties raises: the exception leaves the loop and the handler.
SimulateRaises(s) ==
    /\ pc[s] = "simulate"
    /\ Raise(s, Call("simulator", "", LoopRequirements(s),
                     recommendations[Frame(s)][cursor[s] + 1].id, "raised"),
             RecommendUnavailable)
    /\ UNCHANGED <<config, limiter, request, query, recommendations, cursor, returned,
                   background_tasks, progress, sent, backlog>>

\* ------------------------------------------------------------------ /tradeoff
\* Variant: a list of fewer than two ids is refused before the simulator is
\* called.
TradeoffValidates(s) ==
    /\ pc[s] = "tradeoff"
    /\ pc' = [pc EXCEPT ![s] = "respond"]
    /\ IF Len(request[s].material_ids) < 2
       THEN /\ response' = [response EXCEPT ![s] =
                               [status |-> 400, detail |-> "insufficient input",
                                materials |-> <<>>, analysis |-> <<>>]]
            /\ UNCHANGED <<calls, raised>>
       ELSE /\ response' = [response EXCEPT ![s] = Ok(<<>>, request[s].material_ids)]
            /\ calls' = [calls EXCEPT ![s] =
                            Append(@, Call("analyze_tradeoffs", "", "", "", "returned"))]
            /\ raised' = raised
    /\ UNCHANGED <<config, limiter, request, query, recommendations, cursor, returned,
                   background_tasks, progress, sent, backlog>>

\* analysis = await simulator.analyze_tradeoffs(material_ids, criteria);
\* return analysis. The list goes to the simulator as submitted, whatever its
\* length.
TradeoffReturns(s) ==
    /\ pc[s] = "tradeoff"
    /\ Logged(s, Call("analyze_tradeoffs", "", "", "", "returned"))
    /\ pc' = [pc EXCEPT ![s] = "respond"]
    /\ response' = [response EXCEPT ![s] = Ok(<<>>, request[s].material_ids)]
    /\ UNCHANGED <<config, limiter, request, query, recommendations, cursor, returned,
                   background_tasks, progress, sent, backlog>>

TradeoffRaises(s) ==
    /\ pc[s] = "tradeoff"
    /\ Raise(s, Call("analyze_tradeoffs", "", "", "", "raised"), TradeoffUnavailable)
    /\ UNCHANGED <<config, limiter, request, query, recommendations, cursor, returned,
                   background_tasks, progress, sent, backlog>>

\* ------------------------------------------------------------------ /simulate
\* Variant: an empty composition is refused before the simulator is called.
SimulateCustomValidates(s) ==
    /\ pc[s] = "simulate_custom"
    /\ pc' = [pc EXCEPT ![s] = "respond"]
    /\ IF request[s].composition = <<>>
       THEN /\ response' = [response EXCEPT ![s] =
                               [status |-> 400, detail |-> "invalid input",
                                materials |-> <<>>, analysis |-> <<>>]]
            /\ UNCHANGED <<calls, raised>>
       ELSE /\ response' = [response EXCEPT ![s] = Ok(<<>>, request[s].composition)]
            /\ calls' = [calls EXCEPT ![s] =
                   Append(@, Call("simulate_custom_material", "", "", "", "returned"))]
            /\ raised' = raised
    /\ UNCHANGED <<config, limiter, request, query, recommendations, cursor,
                   returned, background_tasks, progress, sent, backlog>>

\* properties = await simulator.simulate_custom_material(composition,
\* conditions); return {"simulated_properties": properties}. The composition
\* goes to the simulator as submitted, empty or not; the response carries what
\* was simulated for it.
SimulateCustomReturns(s) ==
    /\ pc[s] = "simulate_custom"
    /\ Logged(s, Call("simulate_custom_material", "", "", "", "returned"))
    /\ pc' = [pc EXCEPT ![s] = "respond"]
    /\ response' = [response EXCEPT ![s] = Ok(<<>>, request[s].composition)]
    /\ UNCHANGED <<config, limiter, request, query, recommendations, cursor,
                   returned, background_tasks, progress, sent, backlog>>

SimulateCustomRaises(s) ==
    /\ pc[s] = "simulate_custom"
    /\ Raise(s, Call("simulate_custom_material", "", "", "", "raised"),
             SimulationUnavailable)
    /\ UNCHANGED <<config, limiter, request, query, recommendations, cursor,
                   returned, background_tasks, progress, sent, backlog>>

\* ------------------------------------------------------------------ /materials
\* Variant: without `except HTTPException: raise`, the 404 raised inside the
\* try block is caught by `except Exception` like any other exception.
LookupConflates(s, found) ==
    /\ pc[s] = "lookup"
    /\ Logged(s, Call("get_material_by_id", "", "", request[s].material_id,
                      IF found THEN "returned" ELSE "none"))
    /\ pc' = [pc EXCEPT ![s] = "respond"]
    /\ response' = [response EXCEPT ![s] =
                       IF found THEN Ok(<<Material(request[s].material_id)>>, <<>>)
                       ELSE RetrievalUnavailable]
    /\ UNCHANGED <<config, limiter, request, query, recommendations, cursor,
                   returned, background_tasks, progress, sent, backlog>>

\* material = await recommender.get_material_by_id(material_id) returns: a
\* material (found) or nothing. `if not material` raises the 404, which
\* `except HTTPException: raise` lets through unchanged.
LookupReturns(s, found) ==
    /\ pc[s] = "lookup"
    /\ Logged(s, Call("get_material_by_id", "", "", request[s].material_id,
                      IF found THEN "returned" ELSE "none"))
    /\ pc' = [pc EXCEPT ![s] = "respond"]
    /\ response' = [response EXCEPT ![s] =
                       IF found THEN Ok(<<Material(request[s].material_id)>>, <<>>)
                       ELSE MaterialNotFound]
    /\ UNCHANGED <<config, limiter, request, query, recommendations, cursor,
                   returned, background_tasks, progress, sent, backlog>>

\* get_material_by_id raises: `except Exception` answers with the route's 500.
LookupRaises(s) ==
    /\ pc[s] = "lookup"
    /\ Raise(s, Call("get_material_by_id", "", "", request[s].material_id, "raised"),
             RetrievalUnavailable)
    /\ UNCHANGED <<config, limiter, request, query, recommendations, cursor,
                   returned, background_tasks, progress, sent, backlog>>

\* ------------------------------------------------------------------ /plan_rl
\* Variant: the job is submitted twice.
add_task_twice(tasks, func) == Append(Append(tasks, func), func)

\* background_tasks.add_task(rl_planner.train_and_recommend, objectives,
\* constraints)
add_task(tasks, func) == Append(tasks, func)

\* plan_with_rl: the task is added and the "initiated" response returned, with
\* no await in between.
PlanInitiated(s) ==
    /\ pc[s] = "plan"
    /\ background_tasks' = [background_tasks EXCEPT ![s] =
                               add_task(@, "train_and_recommend")]
    /\ backlog' = backlog + (Len(background_tasks'[s]) - Len(background_tasks[s]))
    /\ pc' = [pc EXCEPT ![s] = "respond"]
    /\ response' = [response EXCEPT ![s] = Initiated]
    /\ UNCHANGED <<config, limiter, request, query, recommendations, cursor, calls, raised,
                   returned, progress, sent>>

\* An exception inside the try block, before the task is added.
PlanRaises(s) ==
    /\ pc[s] = "plan"
    /\ Raise(s, Call("add_task", "", "", "", "raised"), PlanningUnavailable)
    /\ UNCHANGED <<config, limiter, request, query, recommendations, cursor, returned,
                   background_tasks, progress, sent, backlog>>

\* ------------------------------------------------------------------ response
\* The task of a request ends: its locals are gone and the task can serve the
\* next request.
Released(s) ==
    /\ pc' = [pc EXCEPT ![s] = "idle"]
    /\ request' = [request EXCEPT ![s] = NoRequest]
    /\ query' = [query EXCEPT ![s] = NoQuery]
    /\ recommendations' = [recommendations EXCEPT ![s] = <<>>]
    /\ cursor' = [cursor EXCEPT ![s] = 0]
    /\ response' = [response EXCEPT ![s] = NoResponse]
    /\ calls' = [calls EXCEPT ![s] = <<>>]
    /\ raised' = [raised EXCEPT ![s] = ""]
    /\ returned' = [returned EXCEPT ![s] = <<>>]
    /\ background_tasks' = [background_tasks EXCEPT ![s] = <<>>]
    /\ progress' = [progress EXCEPT ![s] = 0]
    /\ sent' = [sent EXCEPT ![s] = FALSE]

\* The "initiated" responses a sent response counts for.
Accepts(r) == IF r = Initiated THEN 1 ELSE 0

\* The response goes out to the caller. A response without background tasks
\* ends the request.
Send(s) ==
    /\ pc[s] = "respond"
    /\ background_tasks[s] = <<>>
    /\ backlog' = backlog - Accepts(response[s])
    /\ Released(s)
    /\ UNCHANGED <<config, limiter>>

\* The response goes out and its background tasks are then run by the same
\* task (the tasks of a response run after the response has been sent).
SendThenBackground(s) ==
    /\ pc[s] = "respond"
    /\ background_tasks[s] # <<>>
    /\ sent' = [sent EXCEPT ![s] = TRUE]
    /\ backlog' = backlog - Accepts(response[s])
    /\ pc' = [pc EXCEPT ![s] = "background"]
    /\ UNCHANGED <<config, limiter, request, query, recommendations, cursor, response,
                   calls, raised, returned, background_tasks, progress>>

\* Variant: the planning job is awaited by the handler, before the response.
BackgroundRunsInline(s) == pc[s] \in {"respond", "background"}

\* When the tasks added with add_task run: once the response is out.
BackgroundRuns(s) == pc[s] = "background"

\* rl_planner.train_and_recommend(objectives, constraints) runs one more step.
JobStep(s) ==
    /\ BackgroundRuns(s)
    /\ background_tasks[s] # <<>>
    /\ progress[s] < MaxJobSteps
    /\ progress' = [progress EXCEPT ![s] = @ + 1]
    /\ UNCHANGED <<config, limiter, pc, request, query, recommendations, cursor, response,
                   calls, raised, returned, background_tasks, sent, backlog>>

\* The job ends (it returns or raises; nobody reads its outcome).
JobEnds(s) ==
    /\ pc[s] = "background"
    /\ progress[s] > 0
    /\ Released(s)
    /\ UNCHANGED <<config, limiter, backlog>>

\* ------------------------------------------------------------------ Settings()
\* Everything but the environment and the settings.
app == <<limiter, pc, request, query, recommendations, cursor, response, calls,
         raised, returned, background_tasks, progress, sent, backlog>>

\* os.environ["CORS_ORIGINS"] = value, or its removal.
Setenv(value) ==
    /\ environ # value
    /\ environ' = value
    /\ UNCHANGED <<settings, memo, spark, app>>

\* settings = Settings()
Construct ==
    /\ settings' = Settings(environ)
    /\ UNCHANGED <<environ, memo, spark, app>>

\* ------------------------------------------------------------------ get_settings
\* @lru_cache(): what the cache holds after a call that missed it and ended
\* with `outcome`. A returned instance is stored; a call that raised stores
\* nothing.
lru_cache(stored, outcome) ==
    IF outcome.value.state = "constructed" THEN outcome ELSE stored

\* settings = get_settings(): the cached instance when there is one, else
\* `return Settings()` under the environment of this call.
GetSettings ==
    /\ cache # NoInstance \/ attempts < MaxAttempts
    /\ IF cache # NoInstance
       THEN /\ latest_call' = cache
            /\ UNCHANGED <<cache, attempts>>
       ELSE /\ attempts' = attempts + 1
            /\ latest_call' = [instance |-> attempts', value |-> Settings(environ)]
            /\ cache' = lru_cache(cache, latest_call')
    /\ first_call' = IF first_call = NoInstance THEN latest_call' ELSE first_call
    /\ again' = (first_call # NoInstance)
    /\ UNCHANGED <<environ, settings, spark, app>>

\* ------------------------------------------------------------------ llm
\* delta.get("content", "")
get(delta, key, default) == IF key \in DOMAIN delta THEN delta[key] ELSE default

\* return <value>
Return(value) == [kind |-> "returned", value |-> value]

\* Variant: the exception is logged and raised again.
except_Reraise(e) == [kind |-> "raised", value |-> e]

\* except Exception as e: logger.error(...); return f"Error: {str(e)}"
except_Exception(e) == Return("Error: " \o e)

\* await client.llm(prompt, model_name, stream): the coroutine runs up to its
\* await of the executor.
Llm ==
    /\ llm_pc \in {"idle", "done"}
    /\ \E arg \in BOOLEAN : stream' = arg
    /\ llm_pc' = "create"
    /\ chunks' = <<>>
    /\ joined' = ""
    /\ llm_error' = NoError
    /\ llm_result' = Pending
    /\ UNCHANGED <<environ, settings, memo, app>>

\* ChatCompletion.create(..., stream=True) returns the stream: the join of its
\* chunks begins.
CreateStream ==
    /\ llm_pc = "create"
    /\ stream
    /\ llm_pc' = "join"
    /\ UNCHANGED <<stream, chunks, joined, llm_error, llm_result>>
    /\ UNCHANGED <<environ, settings, memo, app>>

\* ChatCompletion.create(..., stream=False) returns the completion, and llm
\* returns the content of its message.
CreateCompletion ==
    /\ llm_pc = "create"
    /\ ~stream
    /\ \E completion \in Completions :
          /\ chunks' = <<[content |-> completion]>>
          /\ llm_result' = Return(chunks'[1]["content"])
    /\ llm_pc' = "done"
    /\ UNCHANGED <<stream, joined, llm_error>>
    /\ UNCHANGED <<environ, settings, memo, app>>

\* ChatCompletion.create raises, in either mode.
CreateRaises ==
    /\ llm_pc = "create"
    /\ \E e \in Messages :
          /\ llm_error' = [raised |-> TRUE, message |-> e]
          /\ llm_result' = except_Exception(e)
    /\ llm_pc' = "done"
    /\ UNCHANGED <<stream, chunks, joined>>
    /\ UNCHANGED <<environ, settings, memo, app>>

\* The join takes the next chunk of the stream.
JoinChunk ==
    /\ llm_pc = "join"
    /\ Len(chunks) < MaxChunks
    /\ \E delta \in Deltas :
          /\ chunks' = Append(chunks, delta)
          /\ joined' = joined \o get(delta, "content", "")
    /\ UNCHANGED <<llm_pc, stream, llm_error, llm_result>>
    /\ UNCHANGED <<environ, settings, memo, app>>

\* The stream is exhausted: llm returns the joined text.
JoinReturns ==
    /\ llm_pc = "join"
    /\ llm_result' = Return(joined)
    /\ llm_pc' = "done"
    /\ UNCHANGED <<stream, chunks, joined, llm_error>>
    /\ UNCHANGED <<environ, settings, memo, app>>

\* The stream raises while the join iterates over it; the text joined so far is
\* dropped.
JoinRaises ==
    /\ llm_pc = "join"
    /\ \E e \in Messages :
          /\ llm_error' = [raised |-> TRUE, message |-> e]
          /\ llm_result' = except_Exception(e)
    /\ llm_pc' = "done"
    /\ UNCHANGED <<stream, chunks, joined>>
    /\ UNCHANGED <<environ, settings, memo, app>>

\* ------------------------------------------------------------------ Spec
RecommendHandler(s) ==
    \/ \E enhanced_query \in EnhancedQueries(query[s]) :
          EnhanceReturns(s, enhanced_query)
    \/ EnhanceRaises(s)
    \/ \E ranked \in RankedLists : RecommendReturns(s, ranked)
    \/ RecommendRaises(s)
    \/ SimulateReturns(s)
    \/ SimulateRaises(s)

TradeoffHandler(s) ==
    \/ TradeoffReturns(s)
    \/ TradeoffRaises(s)

PlanHandler(s) ==
    \/ PlanInitiated(s)
    \/ PlanRaises(s)
    \/ JobStep(s)
    \/ JobEnds(s)

SimulateHandler(s) ==
    \/ SimulateCustomReturns(s)
    \/ SimulateCustomRaises(s)

LookupHandler(s) ==
    \/ \E found \in BOOLEAN : LookupReturns(s, found)
    \/ LookupRaises(s)

Respond(s) ==
    \/ Send(s)
    \/ SendThenBackground(s)

\* One request at a time from one caller address, on every route, with the
\* clock running.
Next ==
    \/ Tick
    \/ \E q \in MaterialQuery : ReceiveRecommend(1, "10.0.0.1", q)
    \/ \E ids \in IdLists : ReceiveTradeoff(1, "10.0.0.1", ids)
    \/ ReceivePlan(1, "10.0.0.1")
    \/ RecommendHandler(1)
    \/ TradeoffHandler(1)
    \/ PlanHandler(1)
    \/ Respond(1)

Spec == Init /\ [][Next]_vars

\* Two caller addresses on the /tradeoff and /plan_rl routes, one request at a
\* time, with the clock running.
NextRate ==
    \/ Tick
    \/ \E caller \in Callers, ids \in IdLists : ReceiveTradeoff(1, caller, ids)
    \/ \E caller \in Callers : ReceivePlan(1, caller)
    \/ TradeoffHandler(1)
    \/ PlanHandler(1)
    \/ Respond(1)

SpecRate == Init /\ [][NextRate]_vars

\* The hits the limiter has counted under the keys.
RECURSIVE Total(_, _)
Total(lim, keys) ==
    IF keys = {} THEN 0
    ELSE LET k == CHOOSE key \in keys : TRUE
         IN  Stored(lim, k) + Total(lim, keys \ {k})

\* Fewer than MaxRequests requests have arrived in the running window.
WithinWindow == Total(limiter, Keys) < MaxRequests

\* One request at a time from one caller address, on every route, within one
\* window of the limiter.
NextRoutes ==
    \/ WithinWindow /\ \E q \in MaterialQuery : ReceiveRecommend(1, "10.0.0.1", q)
    \/ WithinWindow /\ \E ids \in IdLists : ReceiveTradeoff(1, "10.0.0.1", ids)
    \/ WithinWindow /\ ReceivePlan(1, "10.0.0.1")
    \/ WithinWindow /\ \E composition \in Compositions :
                           ReceiveSimulate(1, "10.0.0.1", composition)
    \/ WithinWindow /\ \E material_id \in LookupIds :
                           ReceiveLookup(1, "10.0.0.1", material_id)
    \/ RecommendHandler(1)
    \/ TradeoffHandler(1)
    \/ SimulateHandler(1)
    \/ PlanHandler(1)
    \/ LookupHandler(1)
    \/ Respond(1)

SpecRoutes == Init /\ [][NextRoutes]_vars

\* Settings built under every value of CORS_ORIGINS, which can change between
\* two constructions.
InitSettings ==
    /\ InitService
    /\ InitCache
    /\ InitSpark
    /\ environ \in EnvValues
    /\ settings = NotConstructed

NextSettings ==
    \/ \E value \in EnvValues : Setenv(value)
    \/ Construct

SpecSettings == InitSettings /\ [][NextSettings]_vars

\* get_settings called again and again while CORS_ORIGINS changes between the
\* calls.
NextCache ==
    \/ \E value \in EnvValues : Setenv(value)
    \/ GetSettings

SpecCache == InitSettings /\ [][NextCache]_vars

\* Calls of SparkClient.llm, one after the other, in both modes.
NextSpark ==
    \/ Llm
    \/ CreateStream
    \/ CreateCompletion
    \/ CreateRaises
    \/ JoinChunk
    \/ JoinReturns
    \/ JoinRaises

SpecSpark == Init /\ [][NextSpark]_vars

\* The queries two concurrent callers submit: a structured one and one with
\* natural-language text, with different requirements.
ConcurrentQueries ==
    {[natural_language_query |-> "", requirements |-> "r1"],
     [natural_language_query |-> "text", requirements |-> "r2"]}

\* Two /recommend requests in flight at once, each on its own task: a task
\* runs until its next await, so the steps of the two interleave at the
\* service calls.
NextConc ==
    \E s \in Slots :
        \/ \E q \in ConcurrentQueries : ReceiveRecommend(s, "10.0.0.1", q)
        \/ RecommendHandler(s)
        \/ Send(s)

SpecConc == Init /\ [][NextConc]_vars

\* ------------------------------------------------------------------ claims
\* The calls of request s to one service, as positions of `calls`.
CallsTo(s, service) == {j \in DOMAIN calls[s] : calls[s][j].service = service}

Completed(s, route) ==
    /\ request[s].route = route
    /\ pc[s] = "respond"
    /\ response[s].status = 200

\* C1: a /recommend request that completes returns the recommender's
\* candidates: the same members in the same order, during the simulation loop
\* and in the response.
C1_OrderPreserved ==
    \A s \in Slots :
        /\ pc[s] = "simulate" => Ids(recommendations[s]) = returned[s]
        /\ Completed(s, "recommend") => Ids(response[s].materials) = returned[s]

\* A completed response of two candidates, all simulated, ranked against the
\* catalogue's order.
C1_Witness ==
    /\ Completed(1, "recommend")
    /\ returned[1] = <<"B", "A">>
    /\ \A n \in DOMAIN response[1].materials :
          response[1].materials[n].simulated_properties # Unsimulated

\* C2 as claimed: when one simulation call fails, the request is not reported
\* as failed and the response has one entry per candidate.
C2_PartialDegradation ==
    \A s \in Slots :
        raised[s] = "simulator" =>
            /\ response[s].status = 200
            /\ Len(response[s].materials) = Len(returned[s])

\* C2 as amended: when a simulation call fails, the whole request fails with
\* the 500 of the route; the response carries no candidate and no later
\* candidate is simulated.
C2_SimulationFailureFailsRequest ==
    \A s \in Slots :
        raised[s] = "simulator" =>
            /\ pc[s] = "respond"
            /\ response[s] = RecommendUnavailable
            /\ response[s].materials = <<>>
            /\ Cardinality(CallsTo(s, "simulator")) = cursor[s] + 1
            /\ calls[s][Len(calls[s])].result = "raised"

\* The second of two candidates failed after the first had been simulated.
C2_Witness ==
    /\ raised[1] = "simulator"
    /\ Len(returned[1]) = 2
    /\ cursor[1] = 1
    /\ recommendations[1][1].simulated_properties # Unsimulated

\* C3 as claimed: with natural-language text and explicit requirements, the
\* recommender is called with the caller's requirements.
C3_CallerFieldWins ==
    \A s \in Slots : \A j \in CallsTo(s, "recommender") :
        (/\ request[s].query.natural_language_query # ""
         /\ request[s].query.requirements # "none")
            => calls[s][j].requirements = request[s].query.requirements

\* C3 as amended: the recommender is called with the requirements of the
\* query the enhancer returned when the enhancer was called, and with the
\* caller's otherwise.
C3_EnhancedQueryReplaces ==
    \A s \in Slots : \A j \in CallsTo(s, "recommender") :
        IF request[s].query.natural_language_query # ""
        THEN /\ j = 2
             /\ calls[s][1].service = "nlp"
             /\ calls[s][j].requirements = calls[s][1].result
        ELSE /\ j = 1
             /\ calls[s][j].requirements = request[s].query.requirements

\* The caller asked for r1, the enhancer returned r2, and the recommender was
\* called with r2.
C3_Witness ==
    /\ request[1].query = [natural_language_query |-> "text", requirements |-> "r1"]
    /\ \E j \in CallsTo(1, "recommender") : calls[1][j].requirements = "r2"

\* C4 as claimed: after a failed enhancement the request goes on to the
\* recommender when the query has structured requirements, and fails as an
\* unprocessable query when it has none.
C4_EnhancerFailureFallsBack ==
    \A s \in Slots :
        raised[s] = "nlp" =>
            IF request[s].query.requirements # "none"
            THEN response[s].status # 500
            ELSE response[s].detail = "unprocessable query"

\* C4 as amended: after a failed enhancement the request fails with the 500 of
\* the route, with or without structured requirements, and the recommender is
\* not called.
C4_EnhancerFailureFailsRequest ==
    \A s \in Slots :
        raised[s] = "nlp" =>
            /\ pc[s] = "respond"
            /\ response[s] = RecommendUnavailable
            /\ CallsTo(s, "recommender") = {}
            /\ Len(calls[s]) = 1

\* The enhancement of a query with structured requirements failed.
C4_Witness ==
    /\ raised[1] = "nlp"
    /\ request[1].query.requirements = "r1"

\* The hits a key holds in its current window, read from the storage by the
\* caller and route themselves.
HitsOf(caller, route) ==
    IF limiter[<<caller, route>>].ttl = 0 THEN 0 ELSE limiter[<<caller, route>>].count

\* Request s arrives in this step.
Arrives(s) == pc[s] = "idle" /\ pc'[s] # "idle"

\* The limiter's decision on the request that arrives on s in this step.
AdmissionStep(s) ==
    LET caller == request'[s].caller
        route == request'[s].route
        before == HitsOf(caller, route)
    IN  /\ (response'[s] = RateLimited) <=> (before >= RouteLimit(route))
        /\ before < RouteLimit(route) =>
              limiter'[<<caller, route>>].count = before + 1
        /\ limiter'[<<caller, route>>].ttl =
              (IF before = 0 THEN Window ELSE limiter[<<caller, route>>].ttl)

\* The windows in a step of the clock.
RolloverStep ==
    \A k \in Keys :
        /\ limiter[k].ttl > 0 => limiter'[k].ttl = limiter[k].ttl - 1
        /\ limiter'[k].ttl > 0 => limiter'[k].count = limiter[k].count
        /\ limiter'[k].ttl = 0 => limiter'[k].count = 0

\* C5: on a route limited to N per window, a request is let in exactly when
\* fewer than N requests of its caller fell in the current window of the route
\* (so the first N pass and the next is rate limited), each admitted request
\* is counted once, the window opens with the first request and runs down by
\* one per tick, and once it has run out the next request passes again.
C5_FixedWindow ==
    [][(\A s \in Slots : Arrives(s) => AdmissionStep(s))
       /\ ((pc' = pc /\ limiter' # limiter) => RolloverStep)]_vars

\* The request after the last admitted one of a /recommend window is rejected.
C5_Witness ==
    /\ request[1].route = "recommend"
    /\ response[1] = RateLimited
    /\ limiter[<<request[1].caller, "recommend">>].count = RecommendLimit + 1

\* The error responses of the routes other than the limiter's.
OtherFailures == {RecommendUnavailable, TradeoffUnavailable, PlanningUnavailable,
                  HealthUnavailable, MaterialNotFound}

\* C6: a request the limiter rejects reaches no stage behind it: it makes no
\* collaborator call, adds no background task and runs no job, and its answer
\* has the limiter's status, which no other failure of a route has.
C6_RejectedStopsAtLimiter ==
    \A s \in Slots :
        response[s] = RateLimited =>
            /\ pc[s] = "respond"
            /\ calls[s] = <<>>
            /\ raised[s] = ""
            /\ background_tasks[s] = <<>>
            /\ progress[s] = 0
            /\ \A failure \in OtherFailures : failure.status # response[s].status

\* A rejected /plan_rl request.
C6_Witness ==
    /\ request[1].route = "plan_rl"
    /\ response[1] = RateLimited
    /\ pc[1] = "respond"

\* The counters in the step in which a request arrives on s.
OwnCounterStep(s) ==
    LET caller == request'[s].caller
        route == request'[s].route
    IN  /\ response'[s] = RateLimited => HitsOf(caller, route) >= RouteLimit(route)
        /\ \A k \in Keys \ {<<caller, route>>} : limiter'[k] = limiter[k]

\* C7: a request is rejected only when its own caller has used up the limit of
\* its own route, and a request counts against no other caller and no other
\* route.
C7_CountersPerRouteAndCaller ==
    [][\A s \in Slots : Arrives(s) => OwnCounterStep(s)]_vars

\* One caller has used up /tradeoff; the same caller is let in on /plan_rl
\* while the other caller's /tradeoff window holds admitted requests only.
C7_Witness ==
    /\ limiter[<<"10.0.0.1", "tradeoff">>].count = TradeoffLimit + 1
    /\ limiter[<<"10.0.0.2", "tradeoff">>].count \in 1 .. TradeoffLimit
    /\ request[1].caller = "10.0.0.1"
    /\ pc[1] = "plan"

\* An admitted /tradeoff request with fewer than two material ids.
ShortTradeoff(s) ==
    /\ request[s].route = "tradeoff"
    /\ Len(request[s].material_ids) < 2
    /\ response[s] # RateLimited

\* C8 as claimed: a /tradeoff request with fewer than two material ids never
\* reaches the simulator's comparison.
C8_ShortListRejected ==
    \A s \in Slots : ShortTradeoff(s) => CallsTo(s, "analyze_tradeoffs") = {}

\* C8 as amended: a /tradeoff request with fewer than two material ids is
\* handled like any other: the simulator's comparison is called once with the
\* list and the answer is its analysis, or the 500 of the route if it raises.
C8_ShortListPassedThrough ==
    \A s \in Slots :
        ShortTradeoff(s) =>
            \/ pc[s] = "tradeoff" /\ calls[s] = <<>>
            \/ /\ pc[s] = "respond"
               /\ Len(calls[s]) = 1
               /\ calls[s][1].service = "analyze_tradeoffs"
               /\ \/ raised[s] = "" /\ response[s] = Ok(<<>>, request[s].material_ids)
                  \/ raised[s] = "analyze_tradeoffs" /\ response[s] = TradeoffUnavailable

\* A comparison of a single material that came back with an analysis.
C8_Witness ==
    /\ request[1].route = "tradeoff"
    /\ request[1].material_ids = <<"A">>
    /\ response[1] = Ok(<<>>, <<"A">>)

\* C9: the "initiated" response of /plan_rl is produced in the step that adds
\* the job, is ready to go out without any step of the job, and every step of
\* the job comes after the response has gone out.
C9_AcceptedBeforeJobRuns ==
    \A s \in Slots :
        /\ progress[s] > 0 => sent[s]
        /\ (pc[s] = "respond" /\ background_tasks[s] # <<>>) =>
              /\ response[s] = Initiated
              /\ progress[s] = 0
              /\ ENABLED SendThenBackground(s)

\* The response is out and the job has not taken a step yet.
C9_Witness ==
    /\ request[1].route = "plan_rl"
    /\ pc[1] = "background"
    /\ sent[1]
    /\ progress[1] = 0

\* C10: a /plan_rl request holds one job exactly when its response is
\* "initiated" and none otherwise, and whenever no response is waiting to go
\* out the jobs handed off so far are as many as the "initiated" responses sent.
C10_HandedOffOncePerAccepted ==
    /\ \A s \in Slots :
          (request[s].route = "plan_rl" /\ pc[s] \in {"respond", "background"}) =>
              Len(background_tasks[s]) = Accepts(response[s])
    /\ (\A s \in Slots : pc[s] # "respond") => backlog = 0

\* An accepted request whose job is running, with every hand-off answered.
C10_Witness ==
    /\ pc[1] = "background"
    /\ progress[1] > 0
    /\ Len(background_tasks[1]) = 1
    /\ backlog = 0

\* The n-th material request s holds is the n-th the recommender returned to
\* it, not yet simulated or annotated with the value simulated for it under
\* the request's own requirements.
OwnMaterial(s, n, material) ==
    /\ material.id = returned[s][n]
    /\ material.simulated_properties \in
          {Unsimulated,
           SimulatedProperties(returned[s][n], query[s].requirements)}

C12_SimulatedUnderSubmitted ==
    \A s \in Slots :
        \A j \in CallsTo(s, "simulator") :
            calls[s][j].requirements = request[s].query.requirements

\* The requirements of the query the recommender of request s was called with.
Recommended(s) ==
    calls[s][CHOOSE j \in CallsTo(s, "recommender") : TRUE].requirements

\* C12: every simulation call of a /recommend request is made with the
\* requirements of the query the recommender was called with: the submitted
\* ones when the enhancer did not run, and the ones of the enhancer's result
\* when it did.
C12_SimulatedUnderRecommended ==
    \A s \in Slots :
        \A j \in CallsTo(s, "simulator") :
            /\ CallsTo(s, "recommender") # {}
            /\ calls[s][j].requirements = Recommended(s)
            /\ CallsTo(s, "nlp") = {} =>
                  calls[s][j].requirements = request[s].query.requirements
            /\ \A e \in CallsTo(s, "nlp") :
                  calls[s][j].requirements = calls[s][e].result

\* The enhancer ran and returned other requirements than the submitted ones,
\* and a simulation call has been made.
C12_Witness ==
    /\ CallsTo(1, "nlp") # {}
    /\ CallsTo(1, "simulator") # {}
    /\ request[1].query.requirements = "r1"
    /\ query[1].requirements = "r2"

\* The recommender call of request s raised.
RecommenderFailed(s) ==
    \E j \in CallsTo(s, "recommender") : calls[s][j].result = "raised"

\* C13: when recommender.recommend raises, the /recommend request fails as a
\* whole: its response is the 500 "Recommendation service temporarily
\* unavailable", it carries no material, and the request makes no simulation
\* call.
C13_RecommenderFaultFailsRequest ==
    \A s \in Slots :
        RecommenderFailed(s) =>
            /\ pc[s] = "respond"
            /\ response[s] = RecommendUnavailable
            /\ response[s].status = 500
            /\ response[s].materials = <<>>
            /\ CallsTo(s, "simulator") = {}

\* The recommender raised, after an enhancement that returned.
C13_Witness ==
    /\ RecommenderFailed(1)
    /\ raised[1] = "recommender"
    /\ CallsTo(1, "nlp") # {}

\* What get_material_by_id did for the lookup request s: "returned", "none"
\* or "raised" ("" before the call).
LookupOutcome(s) ==
    IF CallsTo(s, "get_material_by_id") = {} THEN ""
    ELSE calls[s][CHOOSE j \in CallsTo(s, "get_material_by_id") : TRUE].result

RouteFailure(route) ==
    CASE route = "recommend" -> RecommendUnavailable
      [] route = "tradeoff" -> TradeoffUnavailable
      [] route = "plan_rl" -> PlanningUnavailable
      [] route = "simulate" -> SimulationUnavailable
      [] route = "materials" -> RetrievalUnavailable

Simulated(s) ==
    /\ request[s].route = "simulate"
    /\ pc[s] = "respond"
    /\ response[s] # RateLimited

\* C16 as stated: a /simulate request with an empty composition is answered
\* with an input error and the simulator is not called for it.
C16_EmptyCompositionRejected ==
    \A s \in Slots :
        (Simulated(s) /\ request[s].composition = <<>>) =>
            /\ response[s].status \in 400 .. 499
            /\ CallsTo(s, "simulate_custom_material") = {}

\* C16: a /simulate request is handed to the simulator whatever its
\* composition, empty or not: the simulator is called exactly once, and the
\* response is the 200 with what the simulator returned, or the route's 500
\* when it raised; no /simulate request is answered with an input error.
C16_EmptyCompositionDelegated ==
    \A s \in Slots :
        Simulated(s) =>
            /\ Cardinality(CallsTo(s, "simulate_custom_material")) = 1
            /\ Len(calls[s]) = 1
            /\ IF calls[s][1].result = "raised"
               THEN response[s] = SimulationUnavailable
               ELSE response[s] = Ok(<<>>, request[s].composition)

\* An empty composition went to the simulator and its result was returned.
C16_Witness ==
    /\ Simulated(1)
    /\ request[1].composition = <<>>
    /\ CallsTo(1, "simulate_custom_material") # {}
    /\ response[1].status = 200

\* recommender.recommend returned to request s, and returned no material.
EmptyResult(s) ==
    /\ \E j \in CallsTo(s, "recommender") : calls[s][j].result = "returned"
    /\ returned[s] = <<>>

\* C17: when recommender.recommend returns no material, the /recommend
\* request completes: its response is the 200 with an empty material list, no
\* call of the request raised, and the request makes no simulation call.
C17_EmptyResultCompletes ==
    \A s \in Slots :
        EmptyResult(s) =>
            /\ Completed(s, "recommend")
            /\ response[s] = Ok(<<>>, <<>>)
            /\ raised[s] = ""
            /\ CallsTo(s, "simulator") = {}

\* The recommender returned an empty list to a structured query.
C17_Witness ==
    /\ EmptyResult(1)
    /\ request[1].query.natural_language_query = ""
    /\ response[1].status = 200

\* A /recommend request the limiter let in.
Recommending(s) ==
    /\ request[s].route = "recommend"
    /\ pc[s] # "idle"
    /\ response[s] # RateLimited

\* C18: process_query is called for a /recommend request exactly when the
\* submitted query has a non-empty natural-language text, and then once: a
\* request with text awaits the enhancer first and has called it once from
\* then on; a request without text never calls it.
C18_EnhancedIffText ==
    \A s \in Slots :
        Recommending(s) =>
            IF request[s].query.natural_language_query # ""
            THEN /\ pc[s] = "enhance" <=> calls[s] = <<>>
                 /\ pc[s] # "enhance" =>
                       /\ Cardinality(CallsTo(s, "nlp")) = 1
                       /\ calls[s][1].service = "nlp"
                       /\ calls[s][1].text = request[s].query.natural_language_query
            ELSE /\ pc[s] # "enhance"
                 /\ CallsTo(s, "nlp") = {}

\* A purely structured query has gone through the recommender, and no call
\* to the enhancer was made.
C18_Witness ==
    /\ Recommending(1)
    /\ request[1].query = [natural_language_query |-> "", requirements |-> "r1"]
    /\ CallsTo(1, "recommender") # {}
    /\ CallsTo(1, "nlp") = {}

\* The origin a list item stands for: the item without its blanks.
Unpadded(item) == SelectSeq(item, LAMBDA c : c # " ")

\* The cors_origins the claim gives for a value of CORS_ORIGINS.
ExpectedOrigins(env) ==
    CASE env.format = "unset" -> DefaultOrigins
      [] env.format = "json" -> env.items
      [] env.format = "csv" -> [n \in DOMAIN env.items |-> Unpadded(env.items[n])]

\* C19: Settings() succeeds under every value of CORS_ORIGINS, and its
\* cors_origins is the array of a JSON array value, the stripped items of a
\* comma-separated value, and the four default origins when the variable is
\* unset.
C19_ParsesBothFormats ==
    settings # NotConstructed =>
        /\ settings.state = "constructed"
        /\ settings.cors_origins = ExpectedOrigins(settings.env)

\* The calls of request s before position j that went to `service` and
\* returned.
ReturnedBefore(s, j, service) ==
    {i \in 1 .. j - 1 :
        calls[s][i].service = service /\ calls[s][i].result # "raised"}

\* C20: the service calls of a /recommend request come in the order
\* enhancer (at most once, first), recommender (at most once, first or right
\* after an enhancement that returned), simulator (only after the recommender
\* returned, one call per material in turn); a call that raised is the last
\* call of the request, which then has its failure response; and a request
\* that completes has called the recommender exactly once and the simulator
\* once for each returned material.
C20_StagesInOrder ==
    \A s \in Slots :
        Recommending(s) =>
            /\ \A j \in DOMAIN calls[s] :
                  /\ calls[s][j].service \in {"nlp", "recommender", "simulator"}
                  /\ calls[s][j].service = "nlp" => j = 1
                  /\ calls[s][j].service = "recommender" =>
                        \/ j = 1
                        \/ j = 2 /\ ReturnedBefore(s, j, "nlp") = {1}
                  /\ calls[s][j].service = "simulator" =>
                        /\ ReturnedBefore(s, j, "recommender") # {}
                        /\ calls[s][j].material =
                              returned[s][Cardinality(ReturnedBefore(s, j, "simulator")) + 1]
                  /\ calls[s][j].result = "raised" =>
                        /\ j = Len(calls[s])
                        /\ pc[s] = "respond"
                        /\ response[s].status = 500
            /\ Cardinality(CallsTo(s, "recommender")) <= 1
            /\ pc[s] = "enhance" => calls[s] = <<>>
            /\ pc[s] = "recommend" => CallsTo(s, "recommender") = {}
            /\ pc[s] = "simulate" => ReturnedBefore(s, Len(calls[s]) + 1, "recommender") # {}
            /\ Completed(s, "recommend") =>
                  /\ Cardinality(CallsTo(s, "recommender")) = 1
                  /\ Cardinality(CallsTo(s, "simulator")) = Len(returned[s])
                  /\ raised[s] = ""

\* A request with text has gone through all the stages: one enhancer call,
\* one recommender call and two simulations, in this order, and completed.
C20_Witness ==
    /\ Completed(1, "recommend")
    /\ Len(calls[1]) = 4
    /\ calls[1][1].service = "nlp"
    /\ calls[1][2].service = "recommender"
    /\ calls[1][3].service = "simulator"
    /\ calls[1][4].service = "simulator"

\* C21: every call of get_settings that returns after the first call returns
\* the instance of the first call, whose values are those of the environment
\* as it was at the first call, whatever the environment has become since.
C21_CachedFromFirstCall ==
    (again /\ latest_call.value.state = "constructed") =>
        /\ latest_call = first_call
        /\ latest_call.value.env = first_call.value.env

\* The text of what OpenAI delivered: the contents of the chunks, in order.
RECURSIVE CompletionText(_)
CompletionText(delivered) ==
    IF delivered = <<>> THEN ""
    ELSE LET piece == IF "content" \in DOMAIN Head(delivered)
                      THEN Head(delivered).content ELSE ""
         IN  piece \o CompletionText(Tail(delivered))

\* C22: a call of SparkClient.llm never ends with an exception: when the OpenAI
\* call failed, at create in either mode or while the streamed chunks were
\* joined, it returns "Error: " followed by the text of the exception, and
\* otherwise it returns the text of the completion.
C22_ErrorsReturnedAsText ==
    llm_pc = "done" =>
        /\ llm_result.kind = "returned"
        /\ llm_result.value = IF llm_error.raised
                              THEN "Error: " \o llm_error.message
                              ELSE CompletionText(chunks)

\* A streamed call that failed during the join, after text had been joined.
C22_Witness ==
    /\ llm_pc = "done"
    /\ stream
    /\ llm_error.raised
    /\ joined # ""
    /\ llm_result = Return("Error: connection refused")

====
